---- MODULE Spec2Model ----
(***************************************************************************)
(* PGKeystore (keystore.go): a keystore over one PostgreSQL table          *)
(* (name TEXT NOT NULL PRIMARY KEY, data BYTEA).  Every operation is one   *)
(* storage request, except Put, which is an existence check (Has)          *)
(* followed by an INSERT .. ON CONFLICT (name) DO UPDATE.  Callers share   *)
(* the pool, so requests of different callers interleave.                  *)
(***************************************************************************)
EXTENDS Integers, Sequences, FiniteSets, TLC

\* ------------------------------------------------------------------ bounds
NumCallers == 2
NumKeys == 2

Callers == 1..NumCallers

\* Names used by TestKeystoreBasics, the empty one included.
Names == {"", "..///foo/", ".foo"}

\* ------------------------------------------------------------------ errors
NoErr == "nil"
ErrKeyExists == "ErrKeyExists"
ErrNoSuchKey == "ErrNoSuchKey"
ErrEmptyName == "key name must be at least one character"
ErrQuery == "driver error"
ErrMarshal == "marshal error"
ErrUnmarshal == "unmarshal error"

\* ------------------------------------------------------------------- codec
\* A private key: its type, its raw bytes, and whether Raw() fails on it.
KeyTypes == {"RSA", "Ed25519"}
PrivKeys == [Type : {"Ed25519"}, Raw : 1..NumKeys, rawErr : {FALSE}]
BadKey == [Type |-> "Ed25519", Raw |-> 1, rawErr |-> TRUE]
AllKeys == PrivKeys \cup {BadKey}
NoKey == [Type |-> "none", Raw |-> 0, rawErr |-> FALSE]

\* ci.MarshalPrivateKey: the type tag followed by the raw key.
MarshalPrivateKey(priv) ==
    IF priv.rawErr
    THEN [bytes |-> <<>>, err |-> ErrMarshal]
    ELSE [bytes |-> <<priv.Type, priv.Raw>>, err |-> NoErr]

\* ci.UnmarshalPrivateKey: reads the type tag, then the raw key.
UnmarshalPrivateKey(data) ==
    IF Len(data) # 2 \/ data[1] \notin KeyTypes
    THEN [key |-> NoKey, err |-> ErrUnmarshal]
    ELSE [key |-> [Type |-> data[1], Raw |-> data[2], rawErr |-> FALSE],
          err |-> NoErr]

\* ----------------------------------------------------------------- storage
\* The table: a function from the stored names to their data column.
EmptyTable == [n \in {} |-> <<>>]

\* SELECT exists(SELECT 1 FROM t WHERE name = $1)
SelectExists(tbl, name) == name \in DOMAIN tbl

\* Variant: ON CONFLICT (name) DO NOTHING.
Upsert_DoNothing(tbl, name, data) ==
    [m \in (DOMAIN tbl) \cup {name} |->
        IF m \in DOMAIN tbl THEN tbl[m] ELSE data]

\* INSERT INTO t (name, data) VALUES ($1, $2)
\*   ON CONFLICT (name) DO UPDATE SET data = $2
Upsert(tbl, name, data) ==
    [m \in (DOMAIN tbl) \cup {name} |-> IF m = name THEN data ELSE tbl[m]]

\* DELETE FROM t WHERE name = $1
DeleteRow(tbl, name) ==
    [m \in (DOMAIN tbl) \ {name} |-> tbl[m]]

\* The orders in which SELECT name FROM t may deliver the rows.
RowOrders(tbl) ==
    {s \in [1..Cardinality(DOMAIN tbl) -> DOMAIN tbl] :
        \A i, j \in 1..Cardinality(DOMAIN tbl) : i # j => s[i] # s[j]}

\* What the driver reports for a request.  SELECT exists(..) always yields
\* one row, so the server never answers it with "norows".
ScanOutcomes == {"ok", "err"}
ExecOutcomes == {"ok", "err"}
RowsOutcomes == {"ok", "err", "itererr"}

\* -------------------------------------------------------------- operations
\* Variant: an absent name is reported as ErrNoSuchKey.
HasResult_AbsentIsError(tbl, name, outcome) ==
    CASE outcome = "ok" /\ name \in DOMAIN tbl -> [exists |-> TRUE, err |-> NoErr]
      [] outcome = "ok" /\ name \notin DOMAIN tbl ->
            [exists |-> FALSE, err |-> ErrNoSuchKey]
      [] outcome = "norows" -> [exists |-> FALSE, err |-> ErrNoSuchKey]
      [] OTHER -> [exists |-> FALSE, err |-> ErrQuery]

\* Has: the result of row.Scan(&exists) decides the return value.
HasResult(tbl, name, outcome) ==
    CASE outcome = "norows" -> [exists |-> FALSE, err |-> ErrNoSuchKey]
      [] outcome = "ok"     -> [exists |-> SelectExists(tbl, name), err |-> NoErr]
      [] OTHER              -> [exists |-> FALSE, err |-> ErrQuery]

\* Variant: the result of the existence check is not looked at.
PutCheckResult_NoExistsCheck(tbl, name, priv, outcome) ==
    IF name = ""
    THEN [err |-> ErrEmptyName, insert |-> FALSE, skbytes |-> <<>>, reqs |-> <<>>]
    ELSE LET m == MarshalPrivateKey(priv)
         IN  IF outcome # "ok"
             THEN [err |-> ErrQuery, insert |-> FALSE, skbytes |-> <<>>,
                   reqs |-> <<"has">>]
             ELSE IF m.err # NoErr
             THEN [err |-> m.err, insert |-> FALSE, skbytes |-> <<>>,
                   reqs |-> <<"has">>]
             ELSE [err |-> NoErr, insert |-> TRUE, skbytes |-> m.bytes,
                   reqs |-> <<"has">>]

\* Variant: the empty name is not rejected.
PutCheckResult_NoEmptyCheck(tbl, name, priv, outcome) ==
    LET m == MarshalPrivateKey(priv)
    IN  IF outcome = "ok" /\ name \in DOMAIN tbl
        THEN [err |-> ErrKeyExists, insert |-> FALSE, skbytes |-> <<>>,
              reqs |-> <<"has">>]
        ELSE IF outcome # "ok"
        THEN [err |-> ErrQuery, insert |-> FALSE, skbytes |-> <<>>,
              reqs |-> <<"has">>]
        ELSE IF m.err # NoErr
        THEN [err |-> m.err, insert |-> FALSE, skbytes |-> <<>>,
              reqs |-> <<"has">>]
        ELSE [err |-> NoErr, insert |-> TRUE, skbytes |-> m.bytes,
              reqs |-> <<"has">>]

\* Variant: the key is marshaled before the existence check.
PutCheckResult_MarshalFirst(tbl, name, priv, outcome) ==
    LET m == MarshalPrivateKey(priv)
    IN  IF name = ""
        THEN [err |-> ErrEmptyName, insert |-> FALSE, skbytes |-> <<>>,
              reqs |-> <<>>]
        ELSE IF m.err # NoErr
        THEN [err |-> m.err, insert |-> FALSE, skbytes |-> <<>>, reqs |-> <<>>]
        ELSE IF outcome = "ok" /\ name \in DOMAIN tbl
        THEN [err |-> ErrKeyExists, insert |-> FALSE, skbytes |-> <<>>,
              reqs |-> <<"has">>]
        ELSE IF outcome # "ok"
        THEN [err |-> ErrQuery, insert |-> FALSE, skbytes |-> <<>>,
              reqs |-> <<"has">>]
        ELSE [err |-> NoErr, insert |-> TRUE, skbytes |-> m.bytes,
              reqs |-> <<"has">>]

\* Put up to the INSERT: empty name, existence, marshaling, in this order.
\* insert = TRUE when Put goes on to the INSERT statement.
PutCheckResult(tbl, name, priv, outcome) ==
    IF name = ""
    THEN [err |-> ErrEmptyName, insert |-> FALSE, skbytes |-> <<>>, reqs |-> <<>>]
    ELSE LET h == HasResult(tbl, name, outcome)
             m == MarshalPrivateKey(priv)
         IN  IF h.exists
             THEN [err |-> ErrKeyExists, insert |-> FALSE, skbytes |-> <<>>,
                   reqs |-> <<"has">>]
             ELSE IF h.err # NoErr /\ h.err # ErrNoSuchKey
             THEN [err |-> h.err, insert |-> FALSE, skbytes |-> <<>>,
                   reqs |-> <<"has">>]
             ELSE IF m.err # NoErr
             THEN [err |-> m.err, insert |-> FALSE, skbytes |-> <<>>,
                   reqs |-> <<"has">>]
             ELSE [err |-> NoErr, insert |-> TRUE, skbytes |-> m.bytes,
                   reqs |-> <<"has">>]

\* Put's INSERT statement: the table afterwards and the error returned.
PutInsertResult(tbl, name, skbytes, outcome) ==
    IF outcome = "ok"
    THEN [tbl |-> Upsert(tbl, name, skbytes), err |-> NoErr]
    ELSE [tbl |-> tbl, err |-> ErrQuery]

\* Variant: the query has no WHERE clause and reads whichever row is first.
GetResult_AnyRow(tbl, name, outcome) ==
    IF outcome # "ok"
    THEN [key |-> NoKey, err |-> ErrQuery]
    ELSE IF DOMAIN tbl = {}
    THEN [key |-> NoKey, err |-> ErrNoSuchKey]
    ELSE UnmarshalPrivateKey(tbl[CHOOSE m \in DOMAIN tbl : TRUE])

\* Get: no row gives pgx.ErrNoRows, a row is unmarshaled.
GetResult(tbl, name, outcome) ==
    IF outcome # "ok"
    THEN [key |-> NoKey, err |-> ErrQuery]
    ELSE IF name \notin DOMAIN tbl
    THEN [key |-> NoKey, err |-> ErrNoSuchKey]
    ELSE UnmarshalPrivateKey(tbl[name])

\* Variant: the statement has no WHERE clause.
DeleteResult_NoWhere(tbl, name, outcome) ==
    IF outcome = "ok"
    THEN [tbl |-> EmptyTable, err |-> NoErr]
    ELSE [tbl |-> tbl, err |-> ErrQuery]

\* Delete: one DELETE statement.
DeleteResult(tbl, name, outcome) ==
    IF outcome = "ok"
    THEN [tbl |-> DeleteRow(tbl, name), err |-> NoErr]
    ELSE [tbl |-> tbl, err |-> ErrQuery]

\* Variant: rows.Next() is called once before the loop, losing the first row.
ListResult_SkipsFirst(order, outcome, upto, bad) ==
    IF outcome = "err"
    THEN [names |-> <<>>, err |-> ErrQuery]
    ELSE LET limit == IF outcome = "itererr" THEN upto ELSE Len(order)
             Decodes(n) == n \notin bad
         IN  [names |-> SelectSeq(SubSeq(order, 2, limit), Decodes),
              err |-> NoErr]

\* List: order is the order the rows arrive in; on "itererr" rows.Next()
\* stops after upto rows because of an error; bad holds the names whose
\* rows.Scan fails.  rows.Err() is never consulted.
ListResult(order, outcome, upto, bad) ==
    IF outcome = "err"
    THEN [names |-> <<>>, err |-> ErrQuery]
    ELSE LET limit == IF outcome = "itererr" THEN upto ELSE Len(order)
             Decodes(n) == n \notin bad
         IN  [names |-> SelectSeq(SubSeq(order, 1, limit), Decodes),
              err |-> NoErr]

\* ------------------------------------------------------------------- state
VARIABLES
    table,      \* the rows of the keys table
    pc,         \* per caller: "idle", or "insert" (inside Put, after Has)
    local,      \* per caller: Put's name, priv and skbytes while in Put
    ev          \* the request/return most recently completed

vars == <<table, pc, local, ev>>

NoLocal == [name |-> "", priv |-> NoKey, skbytes |-> <<>>]

NoEv == [proc |-> 0, op |-> "none", step |-> "none", name |-> "",
         priv |-> NoKey, outcome |-> "ok", bad |-> {}, err |-> NoErr,
         exists |-> FALSE, key |-> NoKey, names |-> <<>>, reqs |-> <<>>,
         pre |-> EmptyTable]

Init ==
    /\ table = EmptyTable
    /\ pc = [p \in Callers |-> "idle"]
    /\ local = [p \in Callers |-> NoLocal]
    /\ ev = NoEv

\* Has(name)
Has(p, name, outcome) ==
    /\ pc[p] = "idle"
    /\ LET r == HasResult(table, name, outcome)
       IN  ev' = [NoEv EXCEPT !.proc = p, !.op = "Has", !.step = "call",
                              !.name = name, !.outcome = outcome,
                              !.exists = r.exists, !.err = r.err,
                              !.reqs = <<"has">>, !.pre = table]
    /\ UNCHANGED <<table, pc, local>>

\* Put(name, priv), from entry to just before the INSERT statement.
PutCheck(p, name, priv, outcome) ==
    /\ pc[p] = "idle"
    /\ LET r == PutCheckResult(table, name, priv, outcome)
       IN  /\ ev' = [NoEv EXCEPT !.proc = p, !.op = "Put", !.step = "check",
                                 !.name = name, !.priv = priv,
                                 !.outcome = IF name = "" THEN "ok" ELSE outcome,
                                 !.err = r.err, !.reqs = r.reqs, !.pre = table]
           /\ IF r.insert
              THEN /\ pc' = [pc EXCEPT ![p] = "insert"]
                   /\ local' = [local EXCEPT ![p] =
                         [name |-> name, priv |-> priv, skbytes |-> r.skbytes]]
              ELSE UNCHANGED <<pc, local>>
    /\ UNCHANGED table

\* Put's INSERT statement and return.
PutInsert(p, outcome) ==
    /\ pc[p] = "insert"
    /\ LET r == PutInsertResult(table, local[p].name, local[p].skbytes, outcome)
       IN  /\ table' = r.tbl
           /\ ev' = [NoEv EXCEPT !.proc = p, !.op = "Put", !.step = "insert",
                                 !.name = local[p].name, !.priv = local[p].priv,
                                 !.outcome = outcome, !.err = r.err,
                                 !.reqs = <<"insert">>, !.pre = table]
    /\ pc' = [pc EXCEPT ![p] = "idle"]
    /\ local' = [local EXCEPT ![p] = NoLocal]

\* Get(name)
Get(p, name, outcome) ==
    /\ pc[p] = "idle"
    /\ LET r == GetResult(table, name, outcome)
       IN  ev' = [NoEv EXCEPT !.proc = p, !.op = "Get", !.step = "call",
                              !.name = name, !.outcome = outcome,
                              !.key = r.key, !.err = r.err,
                              !.reqs = <<"select">>, !.pre = table]
    /\ UNCHANGED <<table, pc, local>>

\* Delete(name)
Delete(p, name, outcome) ==
    /\ pc[p] = "idle"
    /\ LET r == DeleteResult(table, name, outcome)
       IN  /\ table' = r.tbl
           /\ ev' = [NoEv EXCEPT !.proc = p, !.op = "Delete", !.step = "call",
                                 !.name = name, !.outcome = outcome,
                                 !.err = r.err, !.reqs = <<"delete">>,
                                 !.pre = table]
    /\ UNCHANGED <<pc, local>>

\* List()
List(p, order, outcome, upto, bad) ==
    /\ pc[p] = "idle"
    /\ upto <= Len(order)
    /\ (outcome # "itererr") => upto = Len(order)
    /\ LET r == ListResult(order, outcome, upto, bad)
       IN  ev' = [NoEv EXCEPT !.proc = p, !.op = "List", !.step = "call",
                              !.outcome = outcome, !.bad = bad,
                              !.names = r.names, !.err = r.err,
                              !.reqs = <<"list">>, !.pre = table]
    /\ UNCHANGED <<table, pc, local>>

Next ==
    \/ \E p \in Callers, n \in Names, o \in ScanOutcomes : Has(p, n, o)
    \/ \E p \in Callers, n \in Names, k \in AllKeys, o \in ScanOutcomes :
          PutCheck(p, n, k, o)
    \/ \E p \in Callers, o \in ExecOutcomes : PutInsert(p, o)
    \/ \E p \in Callers, n \in Names, o \in ScanOutcomes : Get(p, n, o)
    \/ \E p \in Callers, n \in Names, o \in ExecOutcomes : Delete(p, n, o)
    \/ \E p \in Callers, order \in RowOrders(table), o \in RowsOutcomes,
          upto \in 0..Cardinality(Names), bad \in SUBSET (DOMAIN table) :
          List(p, order, o, upto, bad)

Spec == Init /\ [][Next]_vars

\* ------------------------------------------------------------- properties
Stored(tbl) == DOMAIN tbl

IsPutCheck == ev.op = "Put" /\ ev.step = "check"
IsPutInsert == ev.op = "Put" /\ ev.step = "insert"

\* C1: a Put on a name that already has a record (existence query answered)
\* returns ErrKeyExists, issues no insert, and leaves the stored data as it
\* was, so a following Get still returns the earlier key.
C1_PutExistingRejected ==
    (IsPutCheck /\ ev.name \in Stored(ev.pre) /\ ev.outcome = "ok") =>
        /\ ev.err = ErrKeyExists
        /\ pc[ev.proc] = "idle"
        /\ table = ev.pre
        /\ GetResult(table, ev.name, "ok") = GetResult(ev.pre, ev.name, "ok")

C1_Witness ==
    /\ IsPutCheck /\ ev.name \in Stored(ev.pre) /\ ev.outcome = "ok"
    /\ ev.priv \in PrivKeys
    /\ GetResult(table, ev.name, "ok").err = NoErr
    /\ GetResult(table, ev.name, "ok").key # ev.priv

\* C2: whatever the interleaving, the data stored under a name changes or
\* disappears only through a Delete of that name.
C2_NeverOverwritten ==
    [][\A n \in Stored(table) :
          (n \notin Stored(table') \/ table'[n] # table[n]) =>
              (ev'.op = "Delete" /\ ev'.name = n)]_vars

\* C3: a successful Put(n, k) stores data that Get(n) decodes to k; Get
\* returns the decoded stored key without error; and an operation that is
\* not a write to n leaves the data under n alone.
C3_GetAfterPut ==
    /\ (IsPutInsert /\ ev.err = NoErr) =>
          /\ ev.name \in Stored(table)
          /\ GetResult(table, ev.name, "ok") = [key |-> ev.priv, err |-> NoErr]
    /\ (ev.op = "Get" /\ ev.outcome = "ok" /\ ev.name \in Stored(ev.pre)) =>
          \A k \in PrivKeys :
              ev.pre[ev.name] = MarshalPrivateKey(k).bytes =>
                  (ev.err = NoErr /\ ev.key = k)
    /\ \A n \in Stored(ev.pre) :
          (~(ev.name = n /\ (IsPutInsert \/ ev.op = "Delete"))) =>
              (n \in Stored(table) /\ table[n] = ev.pre[n])

C3_Witness ==
    /\ ev.op = "Get" /\ ev.outcome = "ok" /\ ev.err = NoErr
    /\ ev.key \in PrivKeys
    /\ table[ev.name] = MarshalPrivateKey(ev.key).bytes
    /\ Cardinality(Stored(table)) > 1

\* C4: when the existence query does not fail, Has(n) returns (true, nil)
\* exactly when n is stored and (false, nil) otherwise; right after a
\* successful Put(n, k) the name n is stored.
C4_HasExact ==
    /\ (ev.op = "Has" /\ ev.outcome = "ok") =>
          (ev.err = NoErr /\ (ev.exists <=> ev.name \in Stored(ev.pre)))
    /\ (IsPutInsert /\ ev.err = NoErr) =>
          HasResult(table, ev.name, "ok") = [exists |-> TRUE, err |-> NoErr]

C4_Witness ==
    /\ ev.op = "Has" /\ ev.outcome = "ok" /\ ev.exists /\ ev.err = NoErr
    /\ Stored(table) # Names \ {""}

\* C5: Delete(n) fails only when the request fails; otherwise it returns
\* nil, n is no longer stored (Has false, Get ErrNoSuchKey), every other
\* record is unchanged, and deleting an absent name changes nothing.
C5_DeleteIdempotent ==
    /\ (ev.op = "Delete") =>
          /\ (ev.err # NoErr) <=> (ev.outcome # "ok")
          /\ (ev.outcome # "ok") => table = ev.pre
          /\ (ev.outcome = "ok") =>
                /\ ev.name \notin Stored(table)
                /\ HasResult(table, ev.name, "ok") = [exists |-> FALSE, err |-> NoErr]
                /\ GetResult(table, ev.name, "ok").err = ErrNoSuchKey
                /\ Stored(table) = Stored(ev.pre) \ {ev.name}
                /\ \A m \in Stored(table) : table[m] = ev.pre[m]
                /\ (ev.name \notin Stored(ev.pre)) => table = ev.pre
    /\ (ev.op = "Get" /\ ev.outcome = "ok" /\ ev.name \notin Stored(ev.pre)) =>
          ev.err = ErrNoSuchKey

C5_Witness ==
    /\ ev.op = "Delete" /\ ev.outcome = "ok" /\ ev.err = NoErr
    /\ ev.name \in Stored(ev.pre)
    /\ Stored(table) # {}

\* C6: Put("", k) returns the empty-name error before any storage request
\* and leaves the table alone; a non-empty name that is not stored passes
\* the checks and its insert creates the record.
C6_EmptyNameRejected ==
    /\ "" \notin Stored(table)
    /\ (IsPutCheck /\ ev.name = "") =>
          /\ ev.err = ErrEmptyName
          /\ ev.reqs = <<>>
          /\ table = ev.pre
          /\ pc[ev.proc] = "idle"
    /\ (IsPutCheck /\ ev.name # "" /\ ev.name \notin Stored(ev.pre)
          /\ ev.outcome = "ok" /\ ev.priv \in PrivKeys) =>
          /\ ev.err = NoErr
          /\ pc[ev.proc] = "insert"
          /\ local[ev.proc].name = ev.name
    /\ (IsPutInsert /\ ev.outcome = "ok") =>
          (ev.err = NoErr /\ ev.name # "" /\ ev.name \in Stored(table))

C6_Witness ==
    /\ IsPutCheck /\ ev.name = "" /\ ev.err = ErrEmptyName
    /\ Stored(table) = {"..///foo/", ".foo"}

\* C7: when neither the query nor a row decode fails, List returns nil and
\* every stored name exactly once, in some order; the empty sequence on an
\* empty table.
C7_ListExact ==
    (ev.op = "List" /\ ev.outcome = "ok" /\ ev.bad = {}) =>
        /\ ev.err = NoErr
        /\ {ev.names[i] : i \in 1..Len(ev.names)} = Stored(ev.pre)
        /\ Len(ev.names) = Cardinality(Stored(ev.pre))
        /\ (Stored(ev.pre) = {}) => ev.names = <<>>

C7_Witness ==
    /\ ev.op = "List" /\ ev.outcome = "ok" /\ ev.bad = {} /\ ev.err = NoErr
    /\ Len(ev.names) = 2
    /\ ev.names[1] = ".foo"

\* C8: an operation whose storage request failed returns an error.
C8_FailureSurfaced ==
    (ev.outcome # "ok") => ev.err # NoErr

\* C9: a successful insert of Put leaves the data it wrote under the name
\* (the last insert applied wins); it lands on an existing record only when
\* another caller acted between this Put's existence check and its insert.
C9_LastInsertWins ==
    [][(ev'.op = "Put" /\ ev'.step = "insert" /\ ev'.err = NoErr) =>
          /\ table'[ev'.name] = MarshalPrivateKey(ev'.priv).bytes
          /\ (ev.proc = ev'.proc /\ ev.op = "Put" /\ ev.step = "check") =>
                ev'.name \notin Stored(table)]_vars

\* Both callers put the same new name, both inserts succeed, the second one
\* replaces what the first one stored.
C9_Witness ==
    /\ IsPutInsert /\ ev.err = NoErr
    /\ ev.name \in Stored(ev.pre)
    /\ ev.pre[ev.name] # table[ev.name]
    /\ table[ev.name] = MarshalPrivateKey(ev.priv).bytes
    /\ \A p \in Callers : pc[p] = "idle"

\* C10: a Put that fails before its insert issues no insert and leaves the
\* table as it was; the checks run in the order empty name, existence,
\* marshaling.
C10_PutFailsCleanly ==
    IsPutCheck =>
        /\ (ev.err # NoErr) =>
              /\ table = ev.pre
              /\ pc[ev.proc] = "idle"
              /\ \A i \in 1..Len(ev.reqs) : ev.reqs[i] # "insert"
        /\ (ev.name = "") => ev.err = ErrEmptyName
        /\ (ev.name # "" /\ ev.outcome = "ok" /\ ev.name \in Stored(ev.pre)) =>
              ev.err = ErrKeyExists
        /\ (ev.name # "" /\ ev.outcome = "err") => ev.err = ErrQuery
        /\ (ev.name # "" /\ ev.outcome = "ok" /\ ev.name \notin Stored(ev.pre)
              /\ ev.priv = BadKey) => ev.err = ErrMarshal

C10_Witness ==
    /\ IsPutCheck /\ ev.name \in Stored(ev.pre) /\ ev.priv = BadKey
    /\ ev.err = ErrKeyExists

====
